---- MODULE Spec2Model ----
(***************************************************************************)
(* Model of the NOAA tides integration: the tide mathematics of            *)
(* tide_math.py and the dual-cadence coordinator of coordinator.py.        *)
(*                                                                         *)
(* Units.  Instants are whole minutes on one UTC clock.  Sample and        *)
(* extremum heights are whole centimetres.  A computed height is an exact  *)
(* rational [num, den] in centimetres: the float arithmetic of the source  *)
(* is modelled over the rationals, IEEE-754 rounding is not modelled.      *)
(* The value of scipy's cubic interpolant is kept symbolic: the knots it   *)
(* was built from and the abscissa it was asked for.                       *)
(* Python's None is the empty tuple, a present value x is <<x>>.           *)
(* Python lists are 0-based, sequences here are 1-based.                   *)
(***************************************************************************)
EXTENDS Integers, Sequences, FiniteSets, TLC

VARIABLES
    now,                 \* datetime.now(timezone.utc), minutes
    scipy,               \* whether "from scipy.interpolate import interp1d" succeeds
    options,             \* entry.options: chart_hours, chart_history_hours, prediction_intervals
    cached_predictions,  \* NOAATidesCoordinator._cached_predictions
    last_update_time,    \* NOAATidesCoordinator.last_update_time
    local_update_unsub,  \* NOAATidesCoordinator._local_update_unsub is set (fast timer subscribed)
    refresh,             \* the slow tick: its 10 minute timer, and idle or awaiting the provider
    data,                \* DataUpdateCoordinator.data, the published CurrentState
    call                 \* the last operation applied: its name, arguments, result, exception

vars == <<now, scipy, options, cached_predictions, last_update_time,
          local_update_unsub, refresh, data, call>>

----------------------------------------------------------------------------
(* Bounds of the model. *)

\* dense series and extrema lists have at most MaxLen elements
MaxLen == 4
\* sample times lie on the hour grid 0, 60, ..., 60 * MaxSlot
MaxSlot == 3

----------------------------------------------------------------------------
(* Program constants (const.py), in the model's units. *)

\* TREND_STEADY_THRESHOLD_METERS = 0.1, in centimetres
TREND_STEADY_THRESHOLD_METERS == 10
\* TIDE_SEMI_PERIOD_HOURS = 6.2, in minutes
TIDE_SEMI_PERIOD_HOURS == 372

----------------------------------------------------------------------------
(* Optional values and exact rationals. *)

None == <<>>
Some(x) == <<x>>
IsNone(o) == o = <<>>
Get(o) == o[1]

Abs(x) == IF x < 0 THEN -x ELSE x

RECURSIVE Gcd(_, _)
Gcd(a, b) == IF b = 0 THEN a ELSE Gcd(b, a % b)

\* the rational n/d (d # 0) in lowest terms with a positive denominator
Rat(n, d) ==
    LET g == Gcd(Abs(n), Abs(d))
        s == IF d < 0 THEN -1 ELSE 1
    IN [num |-> s * (n \div g), den |-> s * (d \div g), spline |-> <<>>]

\* float(interp_func(x)) of the interp1d(kind='cubic') built over knots
CubicAt(knots, x) == [num |-> x, den |-> 1, spline |-> knots]

IsNumber(v) == v.spline = <<>>

Sign(x) == IF x < 0 THEN -1 ELSE IF x > 0 THEN 1 ELSE 0

\* the sign of n1/d1 - n2/d2 for d1, d2 > 0, by continued fractions so that
\* no product is formed
RECURSIVE FracCmp(_, _, _, _)
FracCmp(n1, d1, n2, d2) ==
    LET q1 == n1 \div d1
        q2 == n2 \div d2
        r1 == n1 % d1
        r2 == n2 % d2
    IN IF q1 # q2 THEN Sign(q1 - q2)
       ELSE IF r1 = 0 \/ r2 = 0 THEN Sign(r1 - r2)
       ELSE FracCmp(d2, r2, d1, r1)

RatCmp(v, w) == FracCmp(v.num, v.den, w.num, w.den)
RatEq(v, n, d) == IsNumber(v) /\ v.num * d = n * v.den

----------------------------------------------------------------------------
(* The bracketing search shared by the linear tier and the extrema         *)
(* fallbacks:                                                              *)
(*     for x in xs:                                                        *)
(*         if x["time"] <= target: before = x                              *)
(*         elif x["time"] > target and after is None: after = x; break     *)

\* a plausible slip: an element at the target itself counts as after it
RECURSIVE BracketFromStrict(_, _, _, _)
BracketFromStrict(xs, target, i, before) ==
    IF i > Len(xs) THEN [before |-> before, after |-> None]
    ELSE IF xs[i].time < target THEN BracketFromStrict(xs, target, i + 1, Some(xs[i]))
    ELSE [before |-> before, after |-> Some(xs[i])]

RECURSIVE BracketFrom(_, _, _, _)
BracketFrom(xs, target, i, before) ==
    IF i > Len(xs) THEN [before |-> before, after |-> None]
    ELSE IF xs[i].time <= target THEN BracketFrom(xs, target, i + 1, Some(xs[i]))
    ELSE [before |-> before, after |-> Some(xs[i])]

Bracket(xs, target) == BracketFrom(xs, target, 1, None)

----------------------------------------------------------------------------
(* interpolate_tide_height *)

\* "Remove duplicates (keep first occurrence)": the knots, times relative to
\* the first; seen_times is the set of the times met so far
RECURSIVE Dedup(_, _, _, _)
Dedup(hp, i, acc, seen_times) ==
    IF i > Len(hp) THEN acc
    ELSE LET t == hp[i].time - hp[1].time
         IN IF t \in seen_times
            THEN Dedup(hp, i + 1, acc, seen_times)
            ELSE Dedup(hp, i + 1, Append(acc, <<t, hp[i].height>>), seen_times \cup {t})

UniquePoints(hp) == Dedup(hp, 1, <<>>, {})

\* a plausible slip: the line through the two edge samples is continued
EdgeHeightExtrapolated(hourly_predictions, target_time, before_first) ==
    LET n == Len(hourly_predictions)
        a == IF before_first THEN hourly_predictions[1] ELSE hourly_predictions[n - 1]
        b == IF before_first THEN hourly_predictions[2] ELSE hourly_predictions[n]
    IN IF a.time = b.time THEN Rat(IF before_first THEN a.height ELSE b.height, 1)
       ELSE Rat(a.height * (b.time - a.time) + (b.height - a.height) * (target_time - a.time),
                b.time - a.time)

\* "Outside range, use edge values" / "use the closest point": heights[0]
\* before the first sample, heights[-1] after the last
EdgeHeight(hourly_predictions, target_time, before_first) ==
    IF before_first THEN Rat(hourly_predictions[1].height, 1)
    ELSE Rat(hourly_predictions[Len(hourly_predictions)].height, 1)

\* a plausible slip: the ValueError of the duplicate check ends the call with None
CubicTierNoFallback(hourly_predictions, target_time, have_scipy) ==
    LET n == Len(hourly_predictions)
        first == hourly_predictions[1]
        last == hourly_predictions[n]
        unique == UniquePoints(hourly_predictions)
    IN IF n < 4 \/ ~have_scipy THEN [fell |-> TRUE, ret |-> None]
       ELSE IF ~(first.time <= target_time /\ target_time <= last.time)
       THEN [fell |-> FALSE,
             ret |-> Some([height |-> EdgeHeight(hourly_predictions, target_time,
                                                 target_time < first.time),
                           time |-> target_time])]
       ELSE IF Len(unique) < 4
       THEN [fell |-> FALSE, ret |-> None]
       ELSE [fell |-> FALSE,
             ret |-> Some([height |-> CubicAt(unique, target_time - first.time),
                           time |-> target_time])]

\* The cubic tier (the try block).  Its result, or "fallthrough" when it is
\* not entered, scipy cannot be imported, or it raises ValueError.
CubicTier(hourly_predictions, target_time, have_scipy) ==
    LET n == Len(hourly_predictions)
        first == hourly_predictions[1]
        last == hourly_predictions[n]
        unique == UniquePoints(hourly_predictions)
    IN IF n < 4 \/ ~have_scipy THEN [fell |-> TRUE, ret |-> None]
       ELSE IF ~(first.time <= target_time /\ target_time <= last.time)
       THEN [fell |-> FALSE,
             ret |-> Some([height |-> EdgeHeight(hourly_predictions, target_time,
                                                 target_time < first.time),
                           time |-> target_time])]
       ELSE IF Len(unique) < 4
       THEN [fell |-> TRUE, ret |-> None]
       ELSE [fell |-> FALSE,
             ret |-> Some([height |-> CubicAt(unique, target_time - first.time),
                           time |-> target_time])]

\* a plausible slip: the ratio is measured from the later sample
LinearHeightInverted(before, after, target_time) ==
    LET time_span == after.time - before.time
        time_offset == after.time - target_time
    IN IF time_span = 0 THEN Rat(before.height, 1)
       ELSE Rat(before.height * time_span
                  + (after.height - before.height) * time_offset, time_span)

\* "ratio = 0 if time_span == 0 else time_offset / time_span" and the
\* interpolated height before + (after - before) * ratio
LinearHeight(before, after, target_time) ==
    LET time_span == after.time - before.time
        time_offset == target_time - before.time
    IN IF time_span = 0 THEN Rat(before.height, 1)
       ELSE Rat(before.height * time_span
                  + (after.height - before.height) * time_offset, time_span)

\* The linear tier.
LinearTier(hourly_predictions, target_time) ==
    LET b == Bracket(hourly_predictions, target_time)
    IN IF IsNone(b.before)
       THEN Some([height |-> EdgeHeight(hourly_predictions, target_time, TRUE),
                  time |-> target_time])
       ELSE IF IsNone(b.after)
       THEN Some([height |-> EdgeHeight(hourly_predictions, target_time, FALSE),
                  time |-> target_time])
       ELSE Some([height |-> LinearHeight(Get(b.before), Get(b.after), target_time),
                  time |-> target_time])

interpolate_tide_height(hourly_predictions, target_time, have_scipy) ==
    IF Len(hourly_predictions) < 2 THEN None
    ELSE LET c == CubicTier(hourly_predictions, target_time, have_scipy)
         IN IF ~c.fell THEN c.ret
            ELSE LinearTier(hourly_predictions, target_time)

----------------------------------------------------------------------------
(* estimate_trend_from_predictions *)

\* the loop keeping the first index of least |time - target| (strict <)
RECURSIVE ClosestFrom(_, _, _, _, _)
ClosestFrom(hp, target, i, closest_idx, min_diff) ==
    IF i > Len(hp) THEN closest_idx
    ELSE LET diff == Abs(hp[i].time - target)
         IN IF min_diff < 0 \/ diff < min_diff
            THEN ClosestFrom(hp, target, i + 1, i, diff)
            ELSE ClosestFrom(hp, target, i + 1, closest_idx, min_diff)

\* min_diff = float('inf') is the negative sentinel
ClosestIdx(hp, target) == ClosestFrom(hp, target, 1, 1, -1)

\* a plausible slip: a change of exactly the threshold counts as steady
TrendOfInclusive(height_diff) ==
    IF Abs(height_diff) <= TREND_STEADY_THRESHOLD_METERS THEN "steady"
    ELSE IF height_diff > 0 THEN "rising"
    ELSE "falling"

TrendOf(height_diff) ==
    IF Abs(height_diff) < TREND_STEADY_THRESHOLD_METERS THEN "steady"
    ELSE IF height_diff > 0 THEN "rising"
    ELSE "falling"

\* a plausible slip: two samples are taken to be enough for a trend
estimate_trend_from_two(hourly_predictions, target_time) ==
    LET n == Len(hourly_predictions)
        closest_idx == ClosestIdx(hourly_predictions, target_time)
    IN IF n < 2 THEN None
       ELSE IF closest_idx = 1 \/ n = 2
       THEN Some(TrendOf(hourly_predictions[2].height - hourly_predictions[1].height))
       ELSE IF closest_idx = n
       THEN Some(TrendOf(hourly_predictions[n].height - hourly_predictions[n - 1].height))
       ELSE Some(TrendOf(hourly_predictions[closest_idx + 1].height
                           - hourly_predictions[closest_idx - 1].height))

estimate_trend_from_predictions(hourly_predictions, target_time) ==
    LET n == Len(hourly_predictions)
        closest_idx == ClosestIdx(hourly_predictions, target_time)
    IN IF n < 3 THEN None
       ELSE IF closest_idx = 1
       THEN Some(TrendOf(hourly_predictions[2].height - hourly_predictions[1].height))
       ELSE IF closest_idx = n
       THEN Some(TrendOf(hourly_predictions[n].height - hourly_predictions[n - 1].height))
       ELSE Some(TrendOf(hourly_predictions[closest_idx + 1].height
                           - hourly_predictions[closest_idx - 1].height))

----------------------------------------------------------------------------
(* math.cos and math.sin at phase = (elapsed / period) * math.pi.          *)
(* The cosine is Bhaskara's rational approximation                         *)
(*     cos(pi x) = (1 - 4 x^2) / (1 + x^2)   for |x| <= 1/2,               *)
(* extended by cos(pi (1 - x)) = -cos(pi x) and period 2.  It is exact at  *)
(* the multiples of pi/3 and pi/2, within 0.002 elsewhere, and has the     *)
(* sign and the monotonicity of the cosine.  A value is a pair <<n, d>>    *)
(* with d > 0.                                                             *)

CosQuarter(x, period) == <<period * period - 4 * x * x, period * period + x * x>>

CosPhase(elapsed, period) ==
    LET r == elapsed % (2 * period)
        x == IF r > period THEN 2 * period - r ELSE r
    IN IF 2 * x <= period THEN CosQuarter(x, period)
       ELSE LET c == CosQuarter(period - x, period) IN <<-c[1], c[2]>>

\* sin(phase) = cos(phase - pi/2)
SinPhase(elapsed, period) == CosPhase(2 * elapsed - period, 2 * period)

\* a plausible slip: mean_height + amplitude * math.cos(phase)
CosineHeightSignFlipped(first_height, second_height, elapsed, period) ==
    LET c == CosPhase(elapsed, period)
    IN Rat((first_height + second_height) * c[2]
             + (second_height - first_height) * c[1], 2 * c[2])

\* mean_height - amplitude * math.cos(phase), with
\* amplitude = (second - first) / 2 and mean_height = (first + second) / 2
CosineHeight(first_height, second_height, elapsed, period) ==
    LET c == CosPhase(elapsed, period)
    IN Rat((first_height + second_height) * c[2]
             - (second_height - first_height) * c[1], 2 * c[2])

----------------------------------------------------------------------------
(* interpolate_from_high_low.  next_high and next_low are optional         *)
(* extrema; callers also pass (prev_tide, next_tide) in these positions.   *)

\* a plausible slip: a tie in time puts the first argument first
HighComesFirstOnTie(high_time, low_time) == high_time <= low_time

\* a plausible slip: the first argument is taken to be the earlier extremum
HighComesFirstAlways(high_time, low_time) == TRUE

\* "if high_time < low_time": the first argument is the earlier extremum
HighComesFirst(high_time, low_time) == high_time < low_time

interpolate_from_high_low(next_high, next_low, target_time) ==
    IF IsNone(next_high) \/ IsNone(next_low) THEN None
    ELSE
    LET high_time == Get(next_high).time
        low_time == Get(next_low).time
        high_height == Get(next_high).height
        low_height == Get(next_low).height
        high_first == HighComesFirst(high_time, low_time)
        first_time == IF high_first THEN high_time ELSE low_time
        first_height == IF high_first THEN high_height ELSE low_height
        second_time == IF high_first THEN low_time ELSE high_time
        second_height == IF high_first THEN low_height ELSE high_height
    IN IF target_time < first_time
       THEN \* between the estimated previous opposite tide and the first:
            \* period = first_time - prev_time, first_height and second_height unchanged
            LET prev_time == first_time - TIDE_SEMI_PERIOD_HOURS
                period == first_time - prev_time
                elapsed == target_time - prev_time
            IN IF period = 0
               THEN Some([height |-> Rat(first_height, 1), time |-> target_time])
               ELSE Some([height |-> CosineHeight(first_height, second_height, elapsed, period),
                          time |-> target_time])
       ELSE IF target_time > second_time
       THEN \* between the second and the estimated next tide:
            \* first_height = second_height; second_height = next_height = first_height
            LET next_time == second_time + TIDE_SEMI_PERIOD_HOURS
                period == next_time - second_time
                elapsed == target_time - second_time
            IN IF period = 0
               THEN Some([height |-> Rat(second_height, 1), time |-> target_time])
               ELSE Some([height |-> CosineHeight(second_height, first_height, elapsed, period),
                          time |-> target_time])
       ELSE LET period == second_time - first_time
                elapsed == target_time - first_time
            IN IF period = 0
               THEN Some([height |-> Rat(first_height, 1), time |-> target_time])
               ELSE Some([height |-> CosineHeight(first_height, second_height, elapsed, period),
                          time |-> target_time])

----------------------------------------------------------------------------
(* generate_synthetic_predictions *)

\* the search of lines 274-279:
\*     if tide["time"] <= target_time: prev_tide = tide
\*     if tide["time"] > target_time and next_tide is None: next_tide = tide; break
RECURSIVE SynthBracketFrom(_, _, _, _)
SynthBracketFrom(all_tides, target_time, i, prev_tide) ==
    IF i > Len(all_tides) THEN [before |-> prev_tide, after |-> None]
    ELSE LET p == IF all_tides[i].time <= target_time THEN Some(all_tides[i]) ELSE prev_tide
         IN IF all_tides[i].time > target_time
            THEN [before |-> p, after |-> Some(all_tides[i])]
            ELSE SynthBracketFrom(all_tides, target_time, i + 1, p)

\* a plausible slip: hours before the first known tide get no point
SyntheticPointNoLeadIn(all_tides, target_time) ==
    LET b == SynthBracketFrom(all_tides, target_time, 1, None)
    IN IF ~IsNone(b.before) /\ ~IsNone(b.after)
       THEN <<[time |-> target_time,
               height |-> CosineHeight(Get(b.before).height, Get(b.after).height,
                                       target_time - Get(b.before).time,
                                       Get(b.after).time - Get(b.before).time)]>>
       ELSE IF ~IsNone(b.before)
       THEN <<[time |-> target_time, height |-> Rat(Get(b.before).height, 1)]>>
       ELSE <<>>

\* a plausible slip: a straight line between the two bracketing tides
SyntheticPointLinear(all_tides, target_time) ==
    LET b == SynthBracketFrom(all_tides, target_time, 1, None)
    IN IF ~IsNone(b.before) /\ ~IsNone(b.after)
       THEN LET prev_tide == Get(b.before)
                next_tide == Get(b.after)
                period == next_tide.time - prev_tide.time
                elapsed == target_time - prev_tide.time
            IN <<[time |-> target_time,
                  height |-> Rat(prev_tide.height * period
                                   + (next_tide.height - prev_tide.height) * elapsed,
                                 period)]>>
       ELSE IF ~IsNone(b.before)
       THEN <<[time |-> target_time, height |-> Rat(Get(b.before).height, 1)]>>
       ELSE IF ~IsNone(b.after)
       THEN <<[time |-> target_time, height |-> Rat(Get(b.after).height, 1)]>>
       ELSE <<>>

\* the points one loop iteration appends: none or one
SyntheticPoint(all_tides, target_time) ==
    LET b == SynthBracketFrom(all_tides, target_time, 1, None)
    IN IF ~IsNone(b.before) /\ ~IsNone(b.after)
       THEN LET prev_tide == Get(b.before)
                next_tide == Get(b.after)
                period == next_tide.time - prev_tide.time
                elapsed == target_time - prev_tide.time
            IN IF period > 0
               THEN <<[time |-> target_time,
                       height |-> CosineHeight(prev_tide.height, next_tide.height,
                                               elapsed, period)]>>
               ELSE <<>>
       ELSE IF ~IsNone(b.before)
       THEN <<[time |-> target_time, height |-> Rat(Get(b.before).height, 1)]>>
       ELSE IF ~IsNone(b.after)
       THEN <<[time |-> target_time, height |-> Rat(Get(b.after).height, 1)]>>
       ELSE <<>>

\* for hour_offset in range(total_hours + 1)
RECURSIVE SyntheticFrom(_, _, _, _)
SyntheticFrom(all_tides, start_time, hour_offset, total_hours) ==
    IF hour_offset > total_hours THEN <<>>
    ELSE SyntheticPoint(all_tides, start_time + 60 * hour_offset)
           \o SyntheticFrom(all_tides, start_time, hour_offset + 1, total_hours)

generate_synthetic_predictions(all_tides, hours, history_hours, current_time) ==
    IF Len(all_tides) < 2 THEN None
    ELSE LET start_time == current_time - 60 * history_hours
             total_hours == history_hours + hours
             predictions == SyntheticFrom(all_tides, start_time, 0, total_hours)
         IN IF predictions # <<>> THEN Some(predictions) ELSE None

----------------------------------------------------------------------------
(* calculate_tide_rate.  A sinusoidal rate is an exact rational in units   *)
(* of pi centimetres per hour; a cubic rate is symbolic.                   *)

\* (h2 - h1) / delta_t * 3600 with h = interp_func(target_seconds -+ delta_t / 2)
CubicRateAt(knots, x) == [num |-> x, den |-> 1, spline |-> knots]

\* The cubic tier of the rate: its result, or a fall through to the sinusoid.
CubicRateTier(predictions, target_time, have_scipy) ==
    LET n == Len(predictions)
        unique == UniquePoints(predictions)
    IN IF n < 4 \/ ~have_scipy THEN None
       ELSE IF ~(predictions[1].time <= target_time /\ target_time <= predictions[n].time)
       THEN None
       ELSE IF Len(unique) < 4 THEN None
       ELSE Some(CubicRateAt(unique, target_time - predictions[1].time))

\* amplitude * (math.pi / period) * math.sin(phase) * 3600, period in seconds:
\* (twice_amplitude / 2) * (pi / (60 period)) * sin * 3600 with period in minutes
SineRate(twice_amplitude, elapsed, period) ==
    LET sn == SinPhase(elapsed, period)
        sine == Rat(sn[1], sn[2])
        scale == Rat(twice_amplitude * 30, period)
    IN Rat(scale.num * sine.num, scale.den * sine.den)

SinusoidalRate(next_high, next_low, target_time) ==
    LET high_time == Get(next_high).time
        low_time == Get(next_low).time
        high_height == Get(next_high).height
        low_height == Get(next_low).height
        high_first == HighComesFirst(high_time, low_time)
        first_time == IF high_first THEN high_time ELSE low_time
        first_height == IF high_first THEN high_height ELSE low_height
        second_time == IF high_first THEN low_time ELSE high_time
        second_height == IF high_first THEN low_height ELSE high_height
    IN IF target_time < first_time
       THEN LET prev_time == first_time - TIDE_SEMI_PERIOD_HOURS
                period == first_time - prev_time
                elapsed == target_time - prev_time
            IN IF period = 0 THEN Rat(0, 1)
               ELSE SineRate(first_height - second_height, elapsed, period)
       ELSE IF target_time > second_time
       THEN LET next_time == second_time + TIDE_SEMI_PERIOD_HOURS
                period == next_time - second_time
                elapsed == target_time - second_time
            IN IF period = 0 THEN Rat(0, 1)
               ELSE SineRate(first_height - second_height, elapsed, period)
       ELSE LET period == second_time - first_time
                elapsed == target_time - first_time
            IN IF period = 0 THEN Rat(0, 1)
               ELSE SineRate(second_height - first_height, elapsed, period)

\* a plausible slip: a dense series of 4 samples or more shuts the sinusoid out
calculate_tide_rate_dense_only(predictions, next_high, next_low, target_time, have_scipy) ==
    LET c == CubicRateTier(predictions, target_time, have_scipy)
    IN IF Len(predictions) >= 4 THEN c
       ELSE IF IsNone(next_high) \/ IsNone(next_low) THEN None
       ELSE Some(SinusoidalRate(next_high, next_low, target_time))

\* predictions is a list, possibly empty or None (the empty sequence here)
calculate_tide_rate(predictions, next_high, next_low, target_time, have_scipy) ==
    LET c == CubicRateTier(predictions, target_time, have_scipy)
    IN IF ~IsNone(c) THEN c
       ELSE IF IsNone(next_high) \/ IsNone(next_low) THEN None
       ELSE Some(SinusoidalRate(next_high, next_low, target_time))

----------------------------------------------------------------------------
(* Inputs of the tide mathematics: time-ordered lists on a grid. *)

SampleHeights == {0, 5, 10}
SampleTimes == {60 * k : k \in 0..MaxSlot}
Samples == [time : SampleTimes, height : SampleHeights]

ExtremaHeights == {0, 50, 200}
ExtremaTimes == {124 * k : k \in 0..MaxSlot}
Extrema == [time : ExtremaTimes, height : ExtremaHeights]

\* the time-ordered (non-decreasing) lists of n elements of S
RECURSIVE OrderedLists(_, _)
OrderedLists(S, n) ==
    IF n = 0 THEN {<<>>}
    ELSE {Append(p[1], p[2]) :
            p \in {q \in OrderedLists(S, n - 1) \X S :
                     Len(q[1]) = 0 \/ q[1][Len(q[1])].time <= q[2].time}}

DenseInputs == UNION {OrderedLists(Samples, n) : n \in 0..MaxLen}
DenseTargets == {30 * k - 30 : k \in 0..(2 * MaxSlot + 2)}

ExtremaOptions == {None} \cup {Some(e) : e \in Extrema}
ExtremaTargets ==
    ExtremaTimes
    \cup {(a + b) \div 2 : a \in ExtremaTimes, b \in ExtremaTimes}
    \cup {t + d : t \in ExtremaTimes,
                  d \in {-400, -TIDE_SEMI_PERIOD_HOURS, -186, 186, TIDE_SEMI_PERIOD_HOURS, 400}}
    \cup {t + d : t \in ExtremaTimes, d \in {-1, 1}}

TideLists ==
    UNION {OrderedLists([time : ExtremaTimes, height : {0, 200}], n) : n \in 0..MaxLen}
SyntheticHours == {0, 1, 24}
SyntheticHistoryHours == {0, 2, 6}
SyntheticNows == {-90, 100, 500}

\* the dense series the rate is asked with: the first n hours of a series,
\* and MaxLen samples of which the last two share a timestamp
HourlySeries(n) == [i \in 1..n |-> [time |-> 60 * (i - 1), height |-> 10 * ((i * i) % 5)]]
RateSeries ==
    {HourlySeries(n) : n \in 0..MaxLen}
    \cup {Append(HourlySeries(MaxLen - 1), [time |-> 60 * (MaxLen - 2), height |-> 7])}

----------------------------------------------------------------------------
(* Specifications of the pure functions: one application to each input.    *)
(* The target instant is the clock, as it is when target_time is left out. *)

PureTargets == DenseTargets \cup ExtremaTargets \cup SyntheticNows

NoCall == [op |-> "none", raised |-> "", args |-> <<>>, ret |-> None]

InitPure ==
    /\ now \in PureTargets
    /\ scipy = TRUE
    /\ options = [chart_hours |-> 24, chart_history_hours |-> 0,
                  prediction_intervals |-> <<>>]
    /\ cached_predictions = None
    /\ last_update_time = None
    /\ local_update_unsub = FALSE
    /\ refresh = [pc |-> "idle", scheduled |-> TRUE]
    /\ data = None
    /\ call = NoCall

coordinator_vars == <<now, scipy, options, cached_predictions, last_update_time,
                      local_update_unsub, refresh, data>>

ApplyInterpolateTideHeight ==
    /\ call = NoCall
    /\ now \in DenseTargets
    /\ \E hp \in DenseInputs, s \in BOOLEAN :
         call' = [op |-> "interpolate_tide_height", raised |-> "", args |-> <<hp, now, s>>,
                  ret |-> interpolate_tide_height(hp, now, s)]
    /\ UNCHANGED coordinator_vars

ApplyEstimateTrend ==
    /\ call = NoCall
    /\ now \in DenseTargets
    /\ \E hp \in DenseInputs :
         call' = [op |-> "estimate_trend_from_predictions", raised |-> "", args |-> <<hp, now>>,
                  ret |-> estimate_trend_from_predictions(hp, now)]
    /\ UNCHANGED coordinator_vars

DenseNext == ApplyInterpolateTideHeight \/ ApplyEstimateTrend
SpecDense == InitPure /\ [][DenseNext]_vars

ApplyInterpolateFromHighLow ==
    /\ call = NoCall
    /\ now \in ExtremaTargets
    /\ \E a \in ExtremaOptions, b \in ExtremaOptions :
         call' = [op |-> "interpolate_from_high_low", raised |-> "", args |-> <<a, b, now>>,
                  ret |-> interpolate_from_high_low(a, b, now)]
    /\ UNCHANGED coordinator_vars

ApplyGenerateSynthetic ==
    /\ call = NoCall
    /\ now \in SyntheticNows
    /\ \E tides \in TideLists, h \in SyntheticHours, hh \in SyntheticHistoryHours :
         call' = [op |-> "generate_synthetic_predictions", raised |-> "",
                  args |-> <<tides, h, hh, now>>,
                  ret |-> generate_synthetic_predictions(tides, h, hh, now)]
    /\ UNCHANGED coordinator_vars

ApplyCalculateTideRate ==
    /\ call = NoCall
    /\ now \in ExtremaTargets
    /\ \E hp \in RateSeries, a \in ExtremaOptions, b \in ExtremaOptions, s \in BOOLEAN :
         call' = [op |-> "calculate_tide_rate", raised |-> "", args |-> <<hp, a, b, now, s>>,
                  ret |-> calculate_tide_rate(hp, a, b, now, s)]
    /\ UNCHANGED coordinator_vars

ExtremaNext == ApplyInterpolateFromHighLow \/ ApplyGenerateSynthetic \/ ApplyCalculateTideRate
SpecExtrema == InitPure /\ [][ExtremaNext]_vars

\* the five operations of the tide mathematics together
MathNext == DenseNext \/ ExtremaNext
SpecMath == InitPure /\ [][MathNext]_vars

----------------------------------------------------------------------------
(* The provider, NOAATidesAPI.get_all_predictions, over a fixed tide       *)
(* table: a high of 200 cm at minute 45 and every 12 h, a low of 20 cm in  *)
(* between; hourly predictions and hourly observations on the whole hours. *)
(* Each of the three products may be missing from a response (HTTP status  *)
(* not 200, or the station capability switched off), and the high/low      *)
(* product may hold fewer records than the window asked for.               *)

TideAt(k) == [time |-> 45 + 360 * k,
              height |-> IF k % 2 = 0 THEN 200 ELSE 20,
              type |-> IF k % 2 = 0 THEN "H" ELSE "L"]

PredictedHeight(t) == 200 - (Abs(((t - 45 + 360) % 720) - 360) \div 2)
ObservedHeight(t) == PredictedHeight(t) + 7

\* the extrema with lo <= time <= hi, in time order
TidesBetween(lo, hi) ==
    LET kmin == -((45 - lo) \div 360)
        kmax == (hi - 45) \div 360
    IN [i \in 1..(kmax - kmin + 1) |-> TideAt(kmin + i - 1)]

\* the whole hours with lo <= time <= hi, in time order
HoursBetween(lo, hi) ==
    LET hmin == -((-lo) \div 60)
        hmax == hi \div 60
    IN [i \in 1..(hmax - hmin + 1) |-> 60 * (hmin + i - 1)]

\* "find next_high and next_low": the first extremum of the type after current_time
RECURSIVE NextOfType(_, _, _, _)
NextOfType(all_tides, current_time, type, i) ==
    IF i > Len(all_tides) THEN None
    ELSE IF all_tides[i].time > current_time /\ all_tides[i].type = type
    THEN Some([time |-> all_tides[i].time, height |-> all_tides[i].height])
    ELSE NextOfType(all_tides, current_time, type, i + 1)

\* hilo_data["predictions"]: every record of the window asked for, or only
\* the first hilo records from the request time on
HiloAll == -1

\* the responses of the provider that are told apart: the whole high/low
\* window with or without each dense product, a high/low product of one or
\* two records and no dense product, and no high/low product at all
ProviderResponses ==
    {[hilo |-> HiloAll, hourly_ok |-> a, historical_ok |-> b] : a \in BOOLEAN, b \in BOOLEAN}
    \cup {[hilo |-> k, hourly_ok |-> FALSE, historical_ok |-> FALSE] : k \in {1, 2}}
    \cup {[hilo |-> 0, hourly_ok |-> TRUE, historical_ok |-> TRUE]}

HiloRecords(request_time, hilo_hours_before, hours_after, hilo) ==
    IF hilo = HiloAll
    THEN TidesBetween(request_time - 60 * hilo_hours_before, request_time + 60 * hours_after)
    ELSE LET upcoming == TidesBetween(request_time, request_time + 60 * hours_after)
         IN SubSeq(upcoming, 1, IF hilo < Len(upcoming) THEN hilo ELSE Len(upcoming))

\* a plausible slip: the future predictions are put before the observations
CombinedPredictionsFutureFirst(historical_data, hourly_predictions) ==
    hourly_predictions \o historical_data

\* combined_predictions = historical_data + (hourly_predictions if hourly_predictions else [])
CombinedPredictions(historical_data, hourly_predictions) ==
    historical_data \o hourly_predictions

\* The response to a request sent at request_time and parsed at current_time.
get_all_predictions(request_time, current_time, hours_before, hours_after, hilo, hourly_ok, historical_ok) ==
    LET hilo_hours_before == IF 12 > hours_before + 12 THEN 12 ELSE hours_before + 12
        all_tides == HiloRecords(request_time, hilo_hours_before, hours_after, hilo)
        future == HoursBetween(request_time, request_time + 60 * hours_after)
        hourly_predictions ==
            IF hourly_ok
            THEN [i \in 1..Len(future) |->
                    [time |-> future[i], height |-> PredictedHeight(future[i])]]
            ELSE <<>>
        past == HoursBetween(request_time - 60 * hours_before, request_time)
        historical_data ==
            IF historical_ok /\ hours_before > 0
            THEN [i \in 1..Len(past) |->
                    [time |-> past[i], height |-> ObservedHeight(past[i])]]
            ELSE <<>>
        b == Bracket(all_tides, current_time)
        next_high == NextOfType(all_tides, current_time, "H", 1)
        next_low == NextOfType(all_tides, current_time, "L", 1)
    IN IF IsNone(next_high) /\ IsNone(next_low) THEN None
       ELSE Some([next_high |-> next_high,
                  next_low |-> next_low,
                  prev_tide |-> b.before,
                  next_tide |-> b.after,
                  all_tides |-> all_tides,
                  hourly_predictions |-> CombinedPredictions(historical_data,
                                                             hourly_predictions)])

----------------------------------------------------------------------------
(* NOAATidesCoordinator *)

\* the clock advances in steps of 30 minutes, MaxClockTicks times at most
MaxClockTicks == 3

OptionsSet ==
    {[chart_hours |-> 6, chart_history_hours |-> 0, prediction_intervals |-> <<>>],
     [chart_hours |-> 6, chart_history_hours |-> 1, prediction_intervals |-> <<-90, 45>>]}

Init ==
    /\ now = 0
    /\ scipy \in BOOLEAN
    /\ options \in OptionsSet
    /\ cached_predictions = None
    /\ last_update_time = None
    /\ local_update_unsub = TRUE
    /\ refresh = [pc |-> "idle", scheduled |-> TRUE]
    /\ data = None
    /\ call = NoCall

\* max((i for i in intervals if i > 0), default=0)
RECURSIVE MaxPositive(_, _)
MaxPositive(intervals, i) ==
    IF i > Len(intervals) THEN 0
    ELSE LET m == MaxPositive(intervals, i + 1)
         IN IF intervals[i] > 0 /\ intervals[i] > m THEN intervals[i] ELSE m

\* min((i for i in intervals if i < 0), default=0)
RECURSIVE MinNegative(_, _)
MinNegative(intervals, i) ==
    IF i > Len(intervals) THEN 0
    ELSE LET m == MinNegative(intervals, i + 1)
         IN IF intervals[i] < 0 /\ intervals[i] < m THEN intervals[i] ELSE m

Max(a, b) == IF a > b THEN a ELSE b

\* a plausible slip: the 12 hour buffer is left out of the past window
HoursBeforeNoBuffer(opts) ==
    LET min_past_minutes == MinNegative(opts.prediction_intervals, 1)
    IN Max(opts.chart_history_hours,
           IF min_past_minutes < 0 THEN Abs(min_past_minutes) \div 60 ELSE 0)

\* hours_before = 12 + max(chart_history_hours, int(abs(min_past_minutes) / 60))
HoursBefore(opts) ==
    LET min_past_minutes == MinNegative(opts.prediction_intervals, 1)
    IN 12 + Max(opts.chart_history_hours,
                IF min_past_minutes < 0 THEN Abs(min_past_minutes) \div 60 ELSE 0)

\* hours_after = 12 + max(chart_hours, int(max_future_minutes / 60))
HoursAfter(opts) ==
    12 + Max(opts.chart_hours, MaxPositive(opts.prediction_intervals, 1) \div 60)

\* a plausible slip: the height fallback of the slow tick uses next_high and next_low
SlowCurrentStateFromNextPair(all_predictions, current_time, have_scipy) ==
    LET hourly_predictions == all_predictions.hourly_predictions
        next_high == all_predictions.next_high
        next_low == all_predictions.next_low
        from_hourly == IF hourly_predictions # <<>>
                       THEN interpolate_tide_height(hourly_predictions, current_time,
                                                    have_scipy)
                       ELSE None
        current == IF IsNone(from_hourly) /\ ~IsNone(next_high) /\ ~IsNone(next_low)
                   THEN interpolate_from_high_low(next_high, next_low, current_time)
                   ELSE from_hourly
        tide_rate == IF hourly_predictions # <<>> \/ (~IsNone(next_high) /\ ~IsNone(next_low))
                     THEN calculate_tide_rate(hourly_predictions, next_high, next_low,
                                              current_time, have_scipy)
                     ELSE None
        trend == IF hourly_predictions # <<>>
                 THEN estimate_trend_from_predictions(hourly_predictions, current_time)
                 ELSE None
    IN [current |-> current,
        predictions |-> [next_high |-> next_high, next_low |-> next_low],
        trend |-> trend,
        tide_rate |-> tide_rate]

\* The CurrentState a slow tick derives from a response at current_time.
SlowCurrentState(all_predictions, current_time, have_scipy) ==
    LET hourly_predictions == all_predictions.hourly_predictions
        next_high == all_predictions.next_high
        next_low == all_predictions.next_low
        prev_tide == all_predictions.prev_tide
        next_tide == all_predictions.next_tide
        from_hourly == IF hourly_predictions # <<>>
                       THEN interpolate_tide_height(hourly_predictions, current_time,
                                                    have_scipy)
                       ELSE None
        current == IF IsNone(from_hourly) /\ ~IsNone(prev_tide) /\ ~IsNone(next_tide)
                   THEN interpolate_from_high_low(prev_tide, next_tide, current_time)
                   ELSE from_hourly
        tide_rate == IF hourly_predictions # <<>> \/ (~IsNone(next_high) /\ ~IsNone(next_low))
                     THEN calculate_tide_rate(hourly_predictions, next_high, next_low,
                                              current_time, have_scipy)
                     ELSE None
        trend == IF hourly_predictions # <<>>
                 THEN estimate_trend_from_predictions(hourly_predictions, current_time)
                 ELSE None
    IN [current |-> current,
        predictions |-> [next_high |-> next_high, next_low |-> next_low],
        trend |-> trend,
        tide_rate |-> tide_rate]

\* a plausible slip: the cache is edited in place and the extrema of the
\* previous fetch are kept
CacheOfKeepsOldTides(all_predictions, hours_after) ==
    [next_high |-> all_predictions.next_high,
     next_low |-> all_predictions.next_low,
     all_tides |-> IF IsNone(cached_predictions) THEN all_predictions.all_tides
                   ELSE Get(cached_predictions).all_tides,
     hourly_predictions |-> all_predictions.hourly_predictions,
     hours_after |-> hours_after]

\* self._cached_predictions = {...}
CacheOf(all_predictions, hours_after) ==
    [next_high |-> all_predictions.next_high,
     next_low |-> all_predictions.next_low,
     all_tides |-> all_predictions.all_tides,
     hourly_predictions |-> all_predictions.hourly_predictions,
     hours_after |-> hours_after]

\* _async_update_data up to "await self.api.get_all_predictions(...)": the
\* fetch window is computed and the request is sent.
SlowTickBegin ==
    /\ refresh.pc = "idle"
    /\ refresh.scheduled
    /\ refresh' = [pc |-> "awaiting", scheduled |-> TRUE, request_time |-> now,
                   hours_before |-> HoursBefore(options),
                   hours_after |-> HoursAfter(options)]
    /\ call' = [op |-> "_async_update_data", raised |-> "", args |-> <<"request">>,
                ret |-> None]
    /\ UNCHANGED <<now, scipy, options, cached_predictions, last_update_time,
                   local_update_unsub, data>>

\* a plausible slip: a failed fetch invalidates the cache
SlowTickFailDropsCache ==
    /\ refresh.pc = "awaiting"
    /\ \E outcome \in {"none", "raise"} :
         call' = [op |-> "_async_update_data", raised |-> "UpdateFailed",
                  args |-> <<outcome>>, ret |-> None]
    /\ refresh' = [pc |-> "idle", scheduled |-> refresh.scheduled]
    /\ cached_predictions' = None
    /\ UNCHANGED <<now, scipy, options, last_update_time, local_update_unsub, data>>

\* _async_update_data from the await on, when the provider returns None or
\* raises: "raise UpdateFailed", nothing is assigned.
SlowTickFail ==
    /\ refresh.pc = "awaiting"
    /\ \E outcome \in {"none", "raise"} :
         call' = [op |-> "_async_update_data", raised |-> "UpdateFailed",
                  args |-> <<outcome>>, ret |-> None]
    /\ refresh' = [pc |-> "idle", scheduled |-> refresh.scheduled]
    /\ UNCHANGED <<now, scipy, options, cached_predictions, last_update_time,
                   local_update_unsub, data>>

\* _async_update_data from the await on, when the provider returns data: the
\* CurrentState is derived, the cache replaced, the timestamp updated; the
\* base class publishes the returned CurrentState.
SlowTickSucceed ==
    /\ refresh.pc = "awaiting"
    /\ \E r \in ProviderResponses :
         LET all_predictions ==
                 get_all_predictions(refresh.request_time, now, refresh.hours_before,
                                     refresh.hours_after, r.hilo, r.hourly_ok,
                                     r.historical_ok)
         IN /\ ~IsNone(all_predictions)
            /\ cached_predictions' = Some(CacheOf(Get(all_predictions), refresh.hours_after))
            /\ data' = Some(SlowCurrentState(Get(all_predictions), now, scipy))
            /\ call' = [op |-> "_async_update_data", raised |-> "", args |-> <<"data">>,
                        ret |-> data']
    /\ last_update_time' = Some(now)
    /\ refresh' = [pc |-> "idle", scheduled |-> refresh.scheduled]
    /\ UNCHANGED <<now, scipy, options, local_update_unsub>>

\* a plausible slip: without a dense series the trend is estimated from the extrema
FastCurrentStateTrendFromExtrema(cache, current_time, have_scipy) ==
    LET next_high == cache.next_high
        next_low == cache.next_low
        hourly_predictions == cache.hourly_predictions
        all_tides == cache.all_tides
        from_hourly == IF hourly_predictions # <<>>
                       THEN interpolate_tide_height(hourly_predictions, current_time,
                                                    have_scipy)
                       ELSE None
        b == Bracket(all_tides, current_time)
        current == IF IsNone(from_hourly) /\ all_tides # <<>>
                      /\ ~IsNone(b.before) /\ ~IsNone(b.after)
                   THEN interpolate_from_high_low(b.before, b.after, current_time)
                   ELSE from_hourly
        tide_rate == IF hourly_predictions # <<>> \/ (~IsNone(next_high) /\ ~IsNone(next_low))
                     THEN calculate_tide_rate(hourly_predictions, next_high, next_low,
                                              current_time, have_scipy)
                     ELSE None
        trend == IF hourly_predictions # <<>>
                 THEN estimate_trend_from_predictions(hourly_predictions, current_time)
                 ELSE estimate_trend_from_predictions(all_tides, current_time)
    IN [current |-> current,
        predictions |-> [next_high |-> next_high, next_low |-> next_low],
        trend |-> trend,
        tide_rate |-> tide_rate]

\* The CurrentState a fast tick derives from the cache at current_time.
FastCurrentState(cache, current_time, have_scipy) ==
    LET next_high == cache.next_high
        next_low == cache.next_low
        hourly_predictions == cache.hourly_predictions
        all_tides == cache.all_tides
        from_hourly == IF hourly_predictions # <<>>
                       THEN interpolate_tide_height(hourly_predictions, current_time,
                                                    have_scipy)
                       ELSE None
        b == Bracket(all_tides, current_time)
        current == IF IsNone(from_hourly) /\ all_tides # <<>>
                      /\ ~IsNone(b.before) /\ ~IsNone(b.after)
                   THEN interpolate_from_high_low(b.before, b.after, current_time)
                   ELSE from_hourly
        tide_rate == IF hourly_predictions # <<>> \/ (~IsNone(next_high) /\ ~IsNone(next_low))
                     THEN calculate_tide_rate(hourly_predictions, next_high, next_low,
                                              current_time, have_scipy)
                     ELSE None
        trend == IF hourly_predictions # <<>>
                 THEN estimate_trend_from_predictions(hourly_predictions, current_time)
                 ELSE None
    IN [current |-> current,
        predictions |-> [next_high |-> next_high, next_low |-> next_low],
        trend |-> trend,
        tide_rate |-> tide_rate]

\* a plausible slip: the fast tick drops the cached samples that are past
AsyncLocalUpdatePrunesCache ==
    /\ local_update_unsub
    /\ IF IsNone(cached_predictions)
       THEN /\ call' = [op |-> "_async_local_update", raised |-> "", args |-> <<>>,
                        ret |-> None]
            /\ UNCHANGED <<last_update_time, data, cached_predictions>>
       ELSE /\ last_update_time' = Some(now)
            /\ data' = Some(FastCurrentState(Get(cached_predictions), now, scipy))
            /\ cached_predictions' =
                  Some([Get(cached_predictions) EXCEPT !.hourly_predictions =
                           SelectSeq(@, LAMBDA p : p.time >= now)])
            /\ call' = [op |-> "_async_local_update", raised |-> "", args |-> <<>>,
                        ret |-> data']
    /\ UNCHANGED <<now, scipy, options, local_update_unsub, refresh>>

\* a plausible slip: a CurrentState with no height, rate or trend is not published
AsyncLocalUpdateSkipsEmpty ==
    /\ local_update_unsub
    /\ LET state == FastCurrentState(Get(cached_predictions), now, scipy)
       IN IF IsNone(cached_predictions)
             \/ (IsNone(state.current) /\ IsNone(state.tide_rate) /\ IsNone(state.trend))
          THEN /\ call' = [op |-> "_async_local_update", raised |-> "", args |-> <<>>,
                           ret |-> None]
               /\ UNCHANGED <<last_update_time, data>>
          ELSE /\ last_update_time' = Some(now)
               /\ data' = Some(state)
               /\ call' = [op |-> "_async_local_update", raised |-> "", args |-> <<>>,
                           ret |-> data']
    /\ UNCHANGED <<now, scipy, options, cached_predictions, local_update_unsub, refresh>>

\* a plausible slip: the fast tick does nothing while a fetch is in flight
AsyncLocalUpdateSkipsDuringFetch ==
    /\ local_update_unsub
    /\ IF IsNone(cached_predictions) \/ refresh.pc = "awaiting"
       THEN /\ call' = [op |-> "_async_local_update", raised |-> "", args |-> <<>>,
                        ret |-> None]
            /\ UNCHANGED <<last_update_time, data>>
       ELSE /\ last_update_time' = Some(now)
            /\ data' = Some(FastCurrentState(Get(cached_predictions), now, scipy))
            /\ call' = [op |-> "_async_local_update", raised |-> "", args |-> <<>>,
                        ret |-> data']
    /\ UNCHANGED <<now, scipy, options, cached_predictions, local_update_unsub, refresh>>

\* a plausible slip: the timestamp is updated before the cache is looked at
AsyncLocalUpdateStampsAlways ==
    /\ local_update_unsub
    /\ last_update_time' = Some(now)
    /\ IF IsNone(cached_predictions)
       THEN /\ call' = [op |-> "_async_local_update", raised |-> "", args |-> <<>>,
                        ret |-> None]
            /\ UNCHANGED data
       ELSE /\ data' = Some(FastCurrentState(Get(cached_predictions), now, scipy))
            /\ call' = [op |-> "_async_local_update", raised |-> "", args |-> <<>>,
                        ret |-> data']
    /\ UNCHANGED <<now, scipy, options, cached_predictions, local_update_unsub, refresh>>

\* _async_local_update, fired by the one-minute timer while it is subscribed
AsyncLocalUpdate ==
    /\ local_update_unsub
    /\ IF IsNone(cached_predictions)
       THEN /\ call' = [op |-> "_async_local_update", raised |-> "", args |-> <<>>,
                        ret |-> None]
            /\ UNCHANGED <<last_update_time, data>>
       ELSE /\ last_update_time' = Some(now)
            /\ data' = Some(FastCurrentState(Get(cached_predictions), now, scipy))
            /\ call' = [op |-> "_async_local_update", raised |-> "", args |-> <<>>,
                        ret |-> data']
    /\ UNCHANGED <<now, scipy, options, cached_predictions, local_update_unsub, refresh>>

\* a plausible slip: shutdown also drops the cache
AsyncShutdownDropsCache ==
    /\ local_update_unsub' = FALSE
    /\ cached_predictions' = None
    /\ call' = [op |-> "async_shutdown", raised |-> "", args |-> <<>>, ret |-> None]
    /\ UNCHANGED <<now, scipy, options, last_update_time, refresh, data>>

\* async_shutdown: the one-minute timer is unsubscribed, if it was subscribed
AsyncShutdown ==
    /\ local_update_unsub' = FALSE
    /\ call' = [op |-> "async_shutdown", raised |-> "", args |-> <<>>, ret |-> None]
    /\ UNCHANGED <<now, scipy, options, cached_predictions, last_update_time,
                   refresh, data>>

\* async_unload_entry: when the platforms unload, their entities stop
\* listening to the coordinator, which leaves the 10 minute refresh with no
\* listener to be scheduled for, and the coordinator's async_shutdown is
\* awaited; when they do not unload, nothing is done.  A fetch that is
\* awaiting the provider is not cancelled in either case.
AsyncUnloadEntry ==
    /\ \E unload_ok \in BOOLEAN :
         /\ call' = [op |-> "async_unload_entry", raised |-> "",
                     args |-> <<IF unload_ok THEN "unloaded" ELSE "not unloaded">>,
                     ret |-> Some(unload_ok)]
         /\ IF unload_ok
            THEN /\ refresh' = [refresh EXCEPT !.scheduled = FALSE]
                 /\ local_update_unsub' = FALSE
            ELSE UNCHANGED <<refresh, local_update_unsub>>
    /\ UNCHANGED <<now, scipy, options, cached_predictions, last_update_time, data>>

\* the samples p with lo <= p["time"] <= hi, in order
RECURSIVE FilterRange(_, _, _, _)
FilterRange(hourly_predictions, lo, hi, i) ==
    IF i > Len(hourly_predictions) THEN <<>>
    ELSE (IF lo <= hourly_predictions[i].time /\ hourly_predictions[i].time <= hi
          THEN <<hourly_predictions[i]>> ELSE <<>>)
           \o FilterRange(hourly_predictions, lo, hi, i + 1)

\* a plausible slip: the 30 minute buffer is left out
ChartWindowUnbuffered(opts, current_time) ==
    [lo |-> current_time - 60 * opts.chart_history_hours,
     hi |-> current_time + 60 * opts.chart_hours]

\* [start_time - buffer, end_time + buffer] with buffer = timedelta(minutes=30)
ChartWindow(opts, current_time) ==
    [lo |-> current_time - 60 * opts.chart_history_hours - 30,
     hi |-> current_time + 60 * opts.chart_hours + 30]

get_chart_predictions(cached, opts, current_time) ==
    IF IsNone(cached) THEN None
    ELSE LET chart_hours == opts.chart_hours
             chart_history_hours == opts.chart_history_hours
             hourly_predictions == Get(cached).hourly_predictions
             all_tides == Get(cached).all_tides
             w == ChartWindow(opts, current_time)
             filtered_predictions == FilterRange(hourly_predictions, w.lo, w.hi, 1)
         IN IF hourly_predictions # <<>>
            THEN IF filtered_predictions # <<>>
                 THEN Some(filtered_predictions)
                 ELSE Some(hourly_predictions)
            ELSE IF all_tides # <<>>
            THEN generate_synthetic_predictions(all_tides, chart_hours,
                                                chart_history_hours, current_time)
            ELSE None

\* a plausible slip: the cached series is clipped to the chart window in place
GetChartPredictionsClipsCache ==
    /\ call' = [op |-> "get_chart_predictions", raised |-> "", args |-> <<>>,
                ret |-> get_chart_predictions(cached_predictions, options, now)]
    /\ cached_predictions' =
          IF IsNone(cached_predictions) THEN None
          ELSE Some([Get(cached_predictions) EXCEPT !.hourly_predictions =
                        FilterRange(@, ChartWindow(options, now).lo,
                                    ChartWindow(options, now).hi, 1)])
    /\ UNCHANGED <<now, scipy, options, last_update_time, local_update_unsub,
                   refresh, data>>

\* the image entity asks for the chart series
GetChartPredictions ==
    /\ call' = [op |-> "get_chart_predictions", raised |-> "", args |-> <<>>,
                ret |-> get_chart_predictions(cached_predictions, options, now)]
    /\ UNCHANGED coordinator_vars

\* one iteration of "for interval_minutes in intervals": the height, or None
IntervalHeight(cache, target_time, have_scipy) ==
    LET hourly_predictions == cache.hourly_predictions
        all_tides == cache.all_tides
        result == IF hourly_predictions # <<>>
                  THEN interpolate_tide_height(hourly_predictions, target_time, have_scipy)
                  ELSE None
        b == Bracket(all_tides, target_time)
        fallback == IF all_tides # <<>> /\ ~IsNone(b.before) /\ ~IsNone(b.after)
                    THEN interpolate_from_high_low(b.before, b.after, target_time)
                    ELSE None
    IN IF ~IsNone(result) THEN Some(Get(result).height)
       ELSE IF ~IsNone(fallback) THEN Some(Get(fallback).height)
       ELSE None

\* the dict offset -> {"time", "height"}, as a function on the offsets that got a height
calculate_interval_predictions(cached, opts, current_time, have_scipy) ==
    IF IsNone(cached) THEN <<>>
    ELSE LET intervals == opts.prediction_intervals
             offsets == {intervals[i] : i \in 1..Len(intervals)}
             predicted_height ==
                 [m \in offsets |-> IntervalHeight(Get(cached), current_time + m, have_scipy)]
             got == {m \in offsets : ~IsNone(predicted_height[m])}
         IN [m \in got |->
               [time |-> current_time + m, height |-> Get(predicted_height[m])]]

\* the interval sensors ask for their predictions
CalculateIntervalPredictions ==
    /\ call' = [op |-> "calculate_interval_predictions", raised |-> "", args |-> <<>>,
                ret |-> calculate_interval_predictions(cached_predictions, options,
                                                       now, scipy)]
    /\ UNCHANGED coordinator_vars

\* time passes
Tick ==
    /\ now < 30 * MaxClockTicks
    /\ now' = now + 30
    /\ call' = [op |-> "tick", raised |-> "", args |-> <<>>, ret |-> None]
    /\ UNCHANGED <<scipy, options, cached_predictions, last_update_time,
                   local_update_unsub, refresh, data>>

Next ==
    \/ SlowTickBegin
    \/ SlowTickFail
    \/ SlowTickSucceed
    \/ AsyncLocalUpdate
    \/ AsyncShutdown
    \/ AsyncUnloadEntry
    \/ GetChartPredictions
    \/ CalculateIntervalPredictions
    \/ Tick

Spec == Init /\ [][Next]_vars

\* The fetch window of the slow tick over the configurations: chart hours at
\* the ends of the range the options flow accepts, offsets of less than an
\* hour, of more than an hour and of a week, in the past and in the future.
WindowOffsets == {-10080, -90, -59, 30, 61, 10080}
WindowOptions ==
    [chart_hours : {6, 24, 168},
     chart_history_hours : {0, 1, 168},
     prediction_intervals : {<<>>} \cup {<<a>> : a \in WindowOffsets}
                              \cup {<<a, b>> : a \in WindowOffsets, b \in WindowOffsets}]

InitWindow ==
    /\ now = 0
    /\ scipy = TRUE
    /\ options \in WindowOptions
    /\ cached_predictions = None
    /\ last_update_time = None
    /\ local_update_unsub = TRUE
    /\ refresh = [pc |-> "idle", scheduled |-> TRUE]
    /\ data = None
    /\ call = NoCall

SpecWindow == InitWindow /\ [][SlowTickBegin]_vars

----------------------------------------------------------------------------
(* Properties of the tide mathematics. *)

\* C1: on a 2-sample series (t0,h0),(t1,h1) with t0 < t1 and a target t in
\* [t0, t1], interpolate_tide_height returns h0 + (h1-h0)*(t-t0)/(t1-t0),
\* which is h0 at t = t0 and h1 at t = t1.
C1_LinearLaw ==
    call.op = "interpolate_tide_height" =>
        LET hp == call.args[1]
            t == call.args[2]
        IN (Len(hp) = 2 /\ hp[1].time < hp[2].time
              /\ hp[1].time <= t /\ t <= hp[2].time) =>
             /\ ~IsNone(call.ret)
             /\ Get(call.ret).time = t
             /\ RatEq(Get(call.ret).height,
                      hp[1].height * (hp[2].time - hp[1].time)
                        + (hp[2].height - hp[1].height) * (t - hp[1].time),
                      hp[2].time - hp[1].time)
             /\ (t = hp[1].time => RatEq(Get(call.ret).height, hp[1].height, 1))
             /\ (t = hp[2].time => RatEq(Get(call.ret).height, hp[2].height, 1))

\* a 2-sample series with different heights was interpolated strictly inside it
C1_Witness ==
    /\ call.op = "interpolate_tide_height"
    /\ Len(call.args[1]) = 2
    /\ call.args[1][1].time < call.args[2]
    /\ call.args[2] < call.args[1][2].time
    /\ call.args[1][1].height # call.args[1][2].height
    /\ ~IsNone(call.ret)
    /\ Get(call.ret).height.den > 1

\* C2: on a time-ordered series of at least 2 samples, in the cubic tier and
\* in the linear tier, a target before the first sample yields the first
\* sample's height and a target after the last yields the last sample's.
C2_ClampToEdges ==
    call.op = "interpolate_tide_height" =>
        LET hp == call.args[1]
            t == call.args[2]
            n == Len(hp)
        IN n >= 2 =>
             /\ (t < hp[1].time =>
                   ~IsNone(call.ret) /\ RatEq(Get(call.ret).height, hp[1].height, 1))
             /\ (t > hp[n].time =>
                   ~IsNone(call.ret) /\ RatEq(Get(call.ret).height, hp[n].height, 1))

\* the cubic tier was entered with a target after the last of 4 distinct-time
\* samples whose last two heights differ
C2_Witness ==
    /\ call.op = "interpolate_tide_height"
    /\ Len(call.args[1]) >= 4
    /\ call.args[3]
    /\ Len(UniquePoints(call.args[1])) >= 4
    /\ call.args[2] > call.args[1][Len(call.args[1])].time
    /\ call.args[1][Len(call.args[1])].height # call.args[1][Len(call.args[1]) - 1].height
    /\ ~IsNone(call.ret)

\* C3: for two extrema (t0,h0), (t1,h1) with t0 < t1, in either argument
\* order, interpolate_from_high_low returns h0 at t0, h1 at t1 and the mean
\* (h0+h1)/2 at the midpoint (t0+t1)/2.
C3_ThroughExtrema ==
    call.op = "interpolate_from_high_low" =>
        LET a == call.args[1]
            b == call.args[2]
            t == call.args[3]
        IN (~IsNone(a) /\ ~IsNone(b) /\ Get(a).time # Get(b).time) =>
             LET e0 == IF Get(a).time < Get(b).time THEN Get(a) ELSE Get(b)
                 e1 == IF Get(a).time < Get(b).time THEN Get(b) ELSE Get(a)
             IN /\ ~IsNone(call.ret)
                /\ (t = e0.time => RatEq(Get(call.ret).height, e0.height, 1))
                /\ (t = e1.time => RatEq(Get(call.ret).height, e1.height, 1))
                /\ (2 * t = e0.time + e1.time =>
                      RatEq(Get(call.ret).height, e0.height + e1.height, 2))

\* the midpoint of two extrema of different heights was asked for
C3_Witness ==
    /\ call.op = "interpolate_from_high_low"
    /\ ~IsNone(call.args[1]) /\ ~IsNone(call.args[2])
    /\ Get(call.args[1]).time < Get(call.args[2]).time
    /\ Get(call.args[1]).height > Get(call.args[2]).height
    /\ 2 * call.args[3] = Get(call.args[1]).time + Get(call.args[2]).time
    /\ ~IsNone(call.ret)

\* C4 as claimed: with identical timestamps a defined height is returned for
\* every target, and at the shared instant (period 0) it is the height of the
\* extremum passed first.
C4_ZeroPeriodFirstArgument ==
    call.op = "interpolate_from_high_low" =>
        LET a == call.args[1]
            b == call.args[2]
            t == call.args[3]
        IN (~IsNone(a) /\ ~IsNone(b) /\ Get(a).time = Get(b).time) =>
             /\ ~IsNone(call.ret)
             /\ Get(call.ret).height.den > 0
             /\ (t = Get(a).time => RatEq(Get(call.ret).height, Get(a).height, 1))

\* C4 amended: with identical timestamps a defined height (no zero divisor)
\* is returned for every target, and at the shared instant (period 0) it is
\* the height of the extremum passed second (next_low), which a tie orders
\* first; that is the shared height when the two heights agree.
C4_ZeroPeriodDefined ==
    call.op = "interpolate_from_high_low" =>
        LET a == call.args[1]
            b == call.args[2]
            t == call.args[3]
        IN (~IsNone(a) /\ ~IsNone(b) /\ Get(a).time = Get(b).time) =>
             /\ ~IsNone(call.ret)
             /\ Get(call.ret).time = t
             /\ IsNumber(Get(call.ret).height)
             /\ Get(call.ret).height.den > 0
             /\ (t = Get(a).time => RatEq(Get(call.ret).height, Get(b).height, 1))

\* two extrema of one instant and different heights were asked at that instant
C4_Witness ==
    /\ call.op = "interpolate_from_high_low"
    /\ ~IsNone(call.args[1]) /\ ~IsNone(call.args[2])
    /\ Get(call.args[1]).time = Get(call.args[2]).time
    /\ Get(call.args[1]).height # Get(call.args[2]).height
    /\ call.args[3] = Get(call.args[1]).time
    /\ ~IsNone(call.ret)

\* C5: on a series of n >= 3 samples estimate_trend_from_predictions takes
\* the (first) index i closest in time to the target, d = h[i+1] - h[i-1]
\* inside, d = h[2] - h[1] at the first index, d = h[n] - h[n-1] at the last,
\* and returns steady when |d| < 0.1 m, else rising when d > 0 and falling
\* when d < 0.
C5_TrendRule ==
    call.op = "estimate_trend_from_predictions" =>
        LET hp == call.args[1]
            t == call.args[2]
            n == Len(hp)
        IN n >= 3 =>
             \E i \in 1..n :
                /\ \A j \in 1..n : Abs(hp[i].time - t) <= Abs(hp[j].time - t)
                /\ \A j \in 1..(i - 1) : Abs(hp[i].time - t) < Abs(hp[j].time - t)
                /\ LET d == IF i = 1 THEN hp[2].height - hp[1].height
                            ELSE IF i = n THEN hp[n].height - hp[n - 1].height
                            ELSE hp[i + 1].height - hp[i - 1].height
                   IN call.ret = Some(IF d > -10 /\ d < 10 THEN "steady"
                                      ELSE IF d > 0 THEN "rising" ELSE "falling")

\* an interior index was closest and the change across it was exactly 0.1 m
C5_Witness ==
    /\ call.op = "estimate_trend_from_predictions"
    /\ Len(call.args[1]) >= 3
    /\ call.args[1][2].time = call.args[2]
    /\ call.args[1][1].time < call.args[2]
    /\ call.args[1][3].time > call.args[2]
    /\ call.args[1][3].height - call.args[1][1].height = 10
    /\ call.ret = Some("rising")

\* C6: for an extrema list of at least 2 elements and non-negative hours and
\* history_hours, generate_synthetic_predictions returns history_hours +
\* hours + 1 points, the k-th at now - history_hours + (k - 1) hours.
C6_OnePointPerHour ==
    call.op = "generate_synthetic_predictions" =>
        LET all_tides == call.args[1]
            hours == call.args[2]
            history_hours == call.args[3]
            t == call.args[4]
        IN Len(all_tides) >= 2 =>
             /\ ~IsNone(call.ret)
             /\ Len(Get(call.ret)) = history_hours + hours + 1
             /\ \A k \in 1..Len(Get(call.ret)) :
                   Get(call.ret)[k].time = t - 60 * history_hours + 60 * (k - 1)

\* 6 h of history and 24 h ahead gave 31 points, the window starting before
\* the first extremum and ending after the last
C6_Witness ==
    /\ call.op = "generate_synthetic_predictions"
    /\ Len(call.args[1]) >= 2
    /\ call.args[2] = 24 /\ call.args[3] = 6
    /\ call.args[4] - 360 < call.args[1][1].time
    /\ call.args[4] + 1440 > call.args[1][Len(call.args[1])].time
    /\ ~IsNone(call.ret)
    /\ Len(Get(call.ret)) = 31

----------------------------------------------------------------------------
(* Properties of the coordinator. *)

InChartWindow(p) ==
    /\ now - 60 * options.chart_history_hours - 30 <= p.time
    /\ p.time <= now + 60 * options.chart_hours + 30

\* ret is the cached dense series restricted to the buffered chart window
IsWindowedDense(ret) ==
    LET hp == Get(cached_predictions).hourly_predictions
        inside == {i \in 1..Len(hp) : InChartWindow(hp[i])}
    IN /\ Len(ret) = Cardinality(inside)
       /\ \A k \in 1..Len(ret) : InChartWindow(ret[k])
       /\ \A i \in inside : \E k \in 1..Len(ret) : ret[k] = hp[i]
       /\ \A k \in 1..(Len(ret) - 1) : ret[k].time <= ret[k + 1].time

SyntheticOfCache ==
    generate_synthetic_predictions(Get(cached_predictions).all_tides, options.chart_hours,
                                   options.chart_history_hours, now)

\* C7 as claimed: get_chart_predictions returns the synthetic series of the
\* cached extrema whenever the cached dense series is absent or has no
\* sample in [now - chart_history_hours - 30 min, now + chart_hours + 30 min],
\* and otherwise only dense samples inside that window.
C7_SyntheticWhenWindowEmpty ==
    (call.op = "get_chart_predictions" /\ ~IsNone(cached_predictions)) =>
        LET hp == Get(cached_predictions).hourly_predictions
        IN IF hp = <<>> \/ \A i \in 1..Len(hp) : ~InChartWindow(hp[i])
           THEN call.ret = SyntheticOfCache
           ELSE ~IsNone(call.ret) /\ IsWindowedDense(Get(call.ret))

\* C7 amended: get_chart_predictions returns the synthetic series of the
\* cached extrema (one point per hour of the chart span when there are two
\* or more) when the cached dense series is absent or empty; the dense
\* samples inside the buffered window when there are any; and the whole
\* cached dense series, every sample of it outside the window, when the
\* series is not empty but none of its samples is inside the window.
C7_ChartSeries ==
    (call.op = "get_chart_predictions" /\ ~IsNone(cached_predictions)) =>
        LET hp == Get(cached_predictions).hourly_predictions
        IN IF hp = <<>>
           THEN /\ call.ret = SyntheticOfCache
                /\ Len(Get(cached_predictions).all_tides) >= 2 =>
                      /\ ~IsNone(call.ret)
                      /\ Len(Get(call.ret))
                           = options.chart_history_hours + options.chart_hours + 1
           ELSE IF \A i \in 1..Len(hp) : ~InChartWindow(hp[i])
           THEN call.ret = Some(hp)
           ELSE ~IsNone(call.ret) /\ IsWindowedDense(Get(call.ret))

\* the chart was asked for when the cached dense series had samples inside
\* the 30 minute buffer only
C7_Witness ==
    /\ call.op = "get_chart_predictions"
    /\ ~IsNone(cached_predictions)
    /\ ~IsNone(call.ret)
    /\ Get(cached_predictions).hourly_predictions # <<>>
    /\ Get(call.ret) # Get(cached_predictions).hourly_predictions
    /\ \A k \in 1..Len(Get(call.ret)) :
          Get(call.ret)[k].time < now - 60 * options.chart_history_hours

\* C8: get_chart_predictions changes no state of the coordinator, and asked
\* again with the cache, the options and the clock as they stand after the
\* call it returns what it returned.
C8_ChartIdempotent ==
    [][call'.op = "get_chart_predictions" =>
          /\ UNCHANGED <<cached_predictions, last_update_time, local_update_unsub,
                         refresh, data, options, now>>
          /\ get_chart_predictions(cached_predictions', options', now') = call'.ret]_vars

\* a chart was returned from a populated cache
C8_Witness ==
    /\ call.op = "get_chart_predictions"
    /\ ~IsNone(cached_predictions)
    /\ ~IsNone(call.ret)
    /\ Len(Get(call.ret)) > 1

\* C9: a slow tick that fails (the provider returned None or raised) leaves
\* the cache and last_update_time as they were, in its request step and in
\* its failing step, and raises UpdateFailed.
C9_FailedTickKeepsCache ==
    [][/\ (refresh.pc = "idle" /\ refresh'.pc = "awaiting") =>
             UNCHANGED <<cached_predictions, last_update_time>>
       /\ (refresh.pc = "awaiting" /\ refresh'.pc = "idle"
             /\ call'.args # <<"data">>) =>
             /\ UNCHANGED <<cached_predictions, last_update_time>>
             /\ call'.op = "_async_update_data"
             /\ call'.raised = "UpdateFailed"]_vars

\* a slow tick failed after an earlier one had populated the cache
C9_Witness ==
    /\ call.op = "_async_update_data"
    /\ call.raised = "UpdateFailed"
    /\ ~IsNone(cached_predictions)
    /\ ~IsNone(last_update_time)

\* C10: once the cache is populated no step empties it.
C10_StaysPopulated ==
    [][~IsNone(cached_predictions) => ~IsNone(cached_predictions')]_vars

\* the coordinator was shut down with a populated cache
C10_Witness ==
    /\ call.op = "async_shutdown"
    /\ ~local_update_unsub
    /\ ~IsNone(cached_predictions)
    /\ ~IsNone(data)

\* C11: the fast tick and the two on-demand queries send no request to the
\* provider and leave the cache as it was; the cache changes only in the
\* step of a slow tick that succeeds.
C11_OnlySlowTickWritesCache ==
    [][/\ call'.op \in {"_async_local_update", "get_chart_predictions",
                        "calculate_interval_predictions"} =>
             UNCHANGED <<cached_predictions, refresh>>
       /\ cached_predictions' # cached_predictions =>
             /\ call'.op = "_async_update_data"
             /\ call'.raised = ""
             /\ call'.args = <<"data">>]_vars

\* a fast tick published from a populated cache while a fetch was awaited
C11_Witness ==
    /\ call.op = "_async_local_update"
    /\ ~IsNone(call.ret)
    /\ ~IsNone(cached_predictions)
    /\ refresh.pc = "awaiting"

\* C12: with a populated cache every fast tick publishes one CurrentState,
\* the one it returns, carrying the cached next_high and next_low, and
\* stamps last_update_time, whether or not height, rate and trend are None.
C12_FastTickPublishes ==
    [][(call'.op = "_async_local_update" /\ ~IsNone(cached_predictions)) =>
          /\ ~IsNone(data')
          /\ call'.ret = data'
          /\ call'.raised = ""
          /\ Get(data').predictions =
                [next_high |-> Get(cached_predictions).next_high,
                 next_low |-> Get(cached_predictions).next_low]
          /\ last_update_time' = Some(now)]_vars

\* a fast tick published a CurrentState whose height, rate and trend are all None
C12_Witness ==
    /\ call.op = "_async_local_update"
    /\ ~IsNone(data)
    /\ call.ret = data
    /\ IsNone(Get(data).current)
    /\ IsNone(Get(data).tide_rate)
    /\ IsNone(Get(data).trend)

\* C13 as claimed: async_unload_entry shuts the coordinator down when the
\* platforms unload; once async_shutdown has returned no fast tick fires and
\* no slow tick starts; shutting down again changes nothing.
C13_TicksStopAfterShutdown ==
    [][/\ (call'.op = "async_unload_entry" /\ call'.args = <<"unloaded">>) =>
             ~local_update_unsub'
       /\ ~local_update_unsub =>
             /\ call'.op # "_async_local_update"
             /\ ~(refresh.pc = "idle" /\ refresh'.pc = "awaiting")
       /\ (~local_update_unsub /\ call'.op = "async_shutdown") =>
             UNCHANGED coordinator_vars]_vars

----------------------------------------------------------------------------
(* Properties of the tide mathematics, continued. *)

\* the series has 4 samples of distinct times or more and the target lies
\* between its first and its last sample
DenseCovers(hp, t) ==
    /\ Len(hp) >= 4
    /\ Cardinality({hp[i].time : i \in 1..Len(hp)}) >= 4
    /\ hp[1].time <= t /\ t <= hp[Len(hp)].time

\* C14: no operation of the tide mathematics raises, and each returns None
\* on too little data: interpolate_tide_height on fewer than 2 samples,
\* interpolate_from_high_low with an extremum missing,
\* generate_synthetic_predictions on fewer than 2 extrema,
\* estimate_trend_from_predictions on fewer than 3 samples, and
\* calculate_tide_rate with an extremum missing and no cubic tier (scipy
\* absent, or no 4 distinct-time samples around the target).
C14_AbsentNotRaised ==
    /\ call.raised = ""
    /\ (call.op = "interpolate_tide_height" /\ Len(call.args[1]) < 2) => IsNone(call.ret)
    /\ (call.op = "interpolate_from_high_low"
          /\ (IsNone(call.args[1]) \/ IsNone(call.args[2]))) => IsNone(call.ret)
    /\ (call.op = "generate_synthetic_predictions" /\ Len(call.args[1]) < 2) =>
          IsNone(call.ret)
    /\ (call.op = "estimate_trend_from_predictions" /\ Len(call.args[1]) < 3) =>
          IsNone(call.ret)
    /\ (call.op = "calculate_tide_rate"
          /\ (IsNone(call.args[2]) \/ IsNone(call.args[3]))
          /\ ~(call.args[5] /\ DenseCovers(call.args[1], call.args[4]))) =>
          IsNone(call.ret)

\* the trend of a series of exactly 2 samples of different heights was asked for
C14_Witness ==
    /\ call.op = "estimate_trend_from_predictions"
    /\ Len(call.args[1]) = 2
    /\ call.args[1][2].height - call.args[1][1].height >= 10
    /\ IsNone(call.ret)

\* C15 as claimed: calculate_tide_rate returns a number whenever the dense
\* series has 4 distinct-time samples around the target, and whenever both
\* extrema are supplied; it returns None only if neither is the case.
C15_RateWheneverTierAvailable ==
    call.op = "calculate_tide_rate" =>
        LET dense == DenseCovers(call.args[1], call.args[4])
            extrema == ~IsNone(call.args[2]) /\ ~IsNone(call.args[3])
        IN /\ dense => ~IsNone(call.ret)
           /\ extrema => ~IsNone(call.ret)
           /\ IsNone(call.ret) => (~dense /\ ~extrema)

\* C15 amended: calculate_tide_rate returns None exactly when an extremum is
\* missing and the cubic tier is not available, the cubic tier being
\* available when scipy can be imported and the dense series has 4
\* distinct-time samples around the target; with both extrema supplied it
\* returns a number for every target, the sinusoidal one when the cubic
\* tier is not available.
C15_RateNoneOnlyIfNoTier ==
    call.op = "calculate_tide_rate" =>
        LET cubic == call.args[5] /\ DenseCovers(call.args[1], call.args[4])
            extrema == ~IsNone(call.args[2]) /\ ~IsNone(call.args[3])
        IN /\ IsNone(call.ret) <=> (~cubic /\ ~extrema)
           /\ cubic => (~IsNone(call.ret) /\ ~IsNumber(Get(call.ret)))
           /\ (extrema /\ ~cubic) => (~IsNone(call.ret) /\ IsNumber(Get(call.ret)))

\* the rate was asked inside a series of 4 distinct-time samples with scipy
\* absent and one extremum missing: None was returned
C15_Witness ==
    /\ call.op = "calculate_tide_rate"
    /\ DenseCovers(call.args[1], call.args[4])
    /\ ~call.args[5]
    /\ ~IsNone(call.args[2]) /\ IsNone(call.args[3])
    /\ IsNone(call.ret)

----------------------------------------------------------------------------
(* Properties of the coordinator, continued. *)

\* C16 as claimed: with a cache of two extrema or more,
\* calculate_interval_predictions returns an entry for every configured
\* offset, keyed by the offset, with time = now + offset.
C16_OneEntryPerOffset ==
    (call.op = "calculate_interval_predictions" /\ ~IsNone(cached_predictions)
       /\ Len(Get(cached_predictions).all_tides) >= 2) =>
        /\ DOMAIN call.ret = {options.prediction_intervals[i] :
                                 i \in 1..Len(options.prediction_intervals)}
        /\ \A m \in DOMAIN call.ret : call.ret[m].time = now + m

\* the largest element of a set of naturals, 0 for the empty set
SetMax(S) == IF S = {} THEN 0 ELSE CHOOSE x \in S : \A y \in S : y <= x

\* C17: the slow tick asks for hours_before = 12 + max(chart_history_hours,
\* whole hours of the largest past offset) and hours_after = 12 +
\* max(chart_hours, whole hours of the largest future offset), and the
\* window [now - hours_before, now + hours_after] holds now + offset for
\* every configured offset and the chart span [now - chart_history_hours,
\* now + chart_hours].
C17_WindowCoversOffsets ==
    refresh.pc = "awaiting" =>
        LET offsets == {options.prediction_intervals[i] :
                          i \in 1..Len(options.prediction_intervals)}
            past == SetMax({-m : m \in {x \in offsets : x < 0}})
            future == SetMax({x \in offsets : x > 0})
            lo == refresh.request_time - 60 * refresh.hours_before
            hi == refresh.request_time + 60 * refresh.hours_after
        IN /\ refresh.hours_before = 12 + SetMax({options.chart_history_hours, past \div 60})
           /\ refresh.hours_after = 12 + SetMax({options.chart_hours, future \div 60})
           /\ \A m \in offsets :
                 lo <= refresh.request_time + m /\ refresh.request_time + m <= hi
           /\ lo <= refresh.request_time - 60 * options.chart_history_hours
           /\ refresh.request_time + 60 * options.chart_hours <= hi

\* a window was asked for a past offset of 59 minutes, less than a whole
\* hour, with no chart history
C17_Witness ==
    /\ refresh.pc = "awaiting"
    /\ options.chart_history_hours = 0
    /\ options.prediction_intervals = <<-59, 10080>>
    /\ refresh.hours_before = 12
    /\ refresh.hours_after = 180

\* C18: while the cached dense series is empty the published CurrentState
\* has no trend, whatever its height and rate; a published trend comes with
\* a cached dense series of 3 samples or more.
C18_TrendOnlyFromDense ==
    (~IsNone(data) /\ ~IsNone(cached_predictions)) =>
        /\ Get(cached_predictions).hourly_predictions = <<>> => IsNone(Get(data).trend)
        /\ ~IsNone(Get(data).trend) =>
              /\ Len(Get(cached_predictions).hourly_predictions) >= 3
              /\ Get(data).trend \in {Some("rising"), Some("falling"), Some("steady")}

\* a fast tick published height and rate from the extrema and no trend
C18_Witness ==
    /\ call.op = "_async_local_update"
    /\ ~IsNone(data)
    /\ ~IsNone(cached_predictions)
    /\ Get(cached_predictions).hourly_predictions = <<>>
    /\ ~IsNone(Get(data).current)
    /\ ~IsNone(Get(data).tide_rate)
    /\ IsNone(Get(data).trend)

----------------------------------------------------------------------------
(* Properties of the extrema fallbacks outside the two extrema. *)

\* the height v lies on x's side of the mean of x and y
Nearer(v, x, y) ==
    /\ IsNumber(v)
    /\ \/ x = y /\ RatEq(v, x, 1)
       \/ x < y /\ 2 * v.num < (x + y) * v.den
       \/ x > y /\ 2 * v.num > (x + y) * v.den

\* C19 as claimed: for two extrema e0 before e1, interpolate_from_high_low
\* returns e1's height at e0.time - 6.2 h and approaches e0's height next to
\* e0.time from before; it returns e0's height at e1.time + 6.2 h and
\* leaves e1's height next to e1.time.
C19_EdgeExtrapolation ==
    call.op = "interpolate_from_high_low" =>
        LET a == call.args[1]
            b == call.args[2]
            t == call.args[3]
        IN (~IsNone(a) /\ ~IsNone(b) /\ Get(a).time # Get(b).time) =>
             LET e0 == IF Get(a).time < Get(b).time THEN Get(a) ELSE Get(b)
                 e1 == IF Get(a).time < Get(b).time THEN Get(b) ELSE Get(a)
                 h == Get(call.ret).height
             IN /\ t = e0.time - TIDE_SEMI_PERIOD_HOURS => RatEq(h, e1.height, 1)
                /\ t = e0.time - 1 => Nearer(h, e0.height, e1.height)
                /\ t = e1.time + TIDE_SEMI_PERIOD_HOURS => RatEq(h, e0.height, 1)
                /\ t = e1.time + 1 => Nearer(h, e1.height, e0.height)

\* C20 as claimed: with both extrema, the sinusoidal rate is zero at the
\* turning points (the two extrema and the instants whole semi-periods
\* of 6.2 h outside them) and elsewhere has the sign of the change of
\* interpolate_from_high_low's height over the minute next to the target
\* that lies on the target's side of the extrema.
C20_RateSignFollowsHeight ==
    (call.op = "calculate_tide_rate" /\ ~IsNone(call.args[2]) /\ ~IsNone(call.args[3])
       /\ ~IsNone(call.ret) /\ IsNumber(Get(call.ret))) =>
        LET a == call.args[2]
            b == call.args[3]
            t == call.args[4]
            lo == IF Get(a).time < Get(b).time THEN Get(a).time ELSE Get(b).time
            hi == IF Get(a).time < Get(b).time THEN Get(b).time ELSE Get(a).time
            Region(x) == IF x < lo THEN "before" ELSE IF x > hi THEN "after" ELSE "between"
            Height(x) == Get(interpolate_from_high_low(a, b, x)).height
            turning == {lo, hi} \cup {lo - k * TIDE_SEMI_PERIOD_HOURS : k \in 1..3}
                               \cup {hi + k * TIDE_SEMI_PERIOD_HOURS : k \in 1..3}
        IN IF t \in turning
           THEN Get(call.ret).num = 0
           ELSE IF Region(t - 1) = Region(t)
           THEN Sign(Get(call.ret).num) = RatCmp(Height(t), Height(t - 1))
           ELSE Sign(Get(call.ret).num) = RatCmp(Height(t + 1), Height(t))

----------------------------------------------------------------------------
(* The synthetic series against the extrema interpolation. *)

\* C21 as claimed: every point of generate_synthetic_predictions has the
\* height interpolate_from_high_low returns at the point's time: for the
\* two bracketing tides between known tides, for the first two tides
\* before the first and for the last two tides after the last.
C21_SyntheticIsExtremaInterpolation ==
    (call.op = "generate_synthetic_predictions" /\ ~IsNone(call.ret)) =>
        LET all_tides == call.args[1]
            n == Len(all_tides)
        IN \A k \in 1..Len(Get(call.ret)) :
             LET point == Get(call.ret)[k]
                 b == Bracket(all_tides, point.time)
                 pair == IF IsNone(b.before) THEN <<all_tides[1], all_tides[2]>>
                         ELSE IF IsNone(b.after) THEN <<all_tides[n - 1], all_tides[n]>>
                         ELSE <<Get(b.before), Get(b.after)>>
             IN point.height
                  = Get(interpolate_from_high_low(Some(pair[1]), Some(pair[2]), point.time)).height

\* C21: a point between two known tides has the height
\* interpolate_from_high_low returns for the two bracketing consecutive
\* tides; a point before the first known tide has the first tide's height
\* and a point at or after the last known tide has the last tide's height.
C21_SyntheticHalfCosineOrHold ==
    (call.op = "generate_synthetic_predictions" /\ ~IsNone(call.ret)) =>
        LET all_tides == call.args[1]
            n == Len(all_tides)
        IN \A k \in 1..Len(Get(call.ret)) :
             LET point == Get(call.ret)[k]
                 b == Bracket(all_tides, point.time)
             IN IF IsNone(b.before) THEN RatEq(point.height, all_tides[1].height, 1)
                ELSE IF IsNone(b.after) THEN RatEq(point.height, all_tides[n].height, 1)
                ELSE point.height
                       = Get(interpolate_from_high_low(b.before, b.after, point.time)).height

\* a series that starts before the first tide, crosses two tides of
\* different heights off their midpoint and ends after the last tide
C21_Witness ==
    /\ call.op = "generate_synthetic_predictions"
    /\ ~IsNone(call.ret)
    /\ Len(call.args[1]) >= 2
    /\ call.args[1][1].height # call.args[1][Len(call.args[1])].height
    /\ Get(call.ret)[1].time < call.args[1][1].time
    /\ Get(call.ret)[Len(Get(call.ret))].time > call.args[1][Len(call.args[1])].time
    /\ \E k \in 1..Len(Get(call.ret)) :
          LET b == Bracket(call.args[1], Get(call.ret)[k].time)
          IN /\ ~IsNone(b.before) /\ ~IsNone(b.after)
             /\ Get(b.before).height # Get(b.after).height
             /\ Get(b.before).time < Get(call.ret)[k].time
             /\ 2 * Get(call.ret)[k].time # Get(b.before).time + Get(b.after).time

----------------------------------------------------------------------------
(* Properties of the two ticks. *)

\* a slow tick that returned data, or a fast tick that published
TickPublished ==
    /\ call.op \in {"_async_update_data", "_async_local_update"}
    /\ ~IsNone(call.ret)
    /\ ~IsNone(cached_predictions)

\* C22 as claimed: when a tick publishes a rate that does not come from the
\* dense series and the cached extrema bracket now, the rate is the
\* sinusoidal rate of the bracketing pair (the last extremum at or before
\* now and the first after now).
C22_RateFromBracketingExtrema ==
    (TickPublished /\ ~IsNone(Get(call.ret).tide_rate)
       /\ IsNumber(Get(Get(call.ret).tide_rate))) =>
        LET b == Bracket(Get(cached_predictions).all_tides, now)
        IN (~IsNone(b.before) /\ ~IsNone(b.after)) =>
             Get(call.ret).tide_rate
               = calculate_tide_rate(<<>>, b.before, b.after, now, FALSE)

\* C23: the CurrentState a successful slow tick returns and publishes is
\* the CurrentState a fast tick derives at the same instant from the cache
\* that slow tick stored.
C23_SlowTickIsFastTickOnCache ==
    (call.op = "_async_update_data" /\ call.raised = "" /\ ~IsNone(call.ret)) =>
        /\ ~IsNone(cached_predictions)
        /\ last_update_time = Some(now)
        /\ data = call.ret
        /\ call.ret = Some(FastCurrentState(Get(cached_predictions), now, scipy))

\* a slow tick took the height from the bracketing extrema and the rate
\* from the sinusoid, half an hour after its request was sent
C23_Witness ==
    /\ call.op = "_async_update_data"
    /\ ~IsNone(call.ret)
    /\ ~IsNone(cached_predictions)
    /\ Get(cached_predictions).hourly_predictions = <<>>
    /\ ~IsNone(Get(call.ret).current)
    /\ ~IsNone(Get(call.ret).tide_rate)
    /\ now > 0

\* xs is non-decreasing in time
NonDecreasing(xs) == \A i \in 1..(Len(xs) - 1) : xs[i].time <= xs[i + 1].time

\* C24: the cache, which only a successful slow tick stores, holds an
\* extrema sequence and a dense sample sequence (observations followed by
\* predictions) that are non-decreasing in time.
C24_CachedSequencesOrdered ==
    ~IsNone(cached_predictions) =>
        /\ NonDecreasing(Get(cached_predictions).all_tides)
        /\ NonDecreasing(Get(cached_predictions).hourly_predictions)

\* a slow tick stored several extrema and a dense series in which the last
\* observation and the first prediction share the timestamp of the request
C24_Witness ==
    /\ call.op = "_async_update_data"
    /\ ~IsNone(call.ret)
    /\ ~IsNone(cached_predictions)
    /\ Len(Get(cached_predictions).all_tides) >= 2
    /\ \E i \in 1..(Len(Get(cached_predictions).hourly_predictions) - 1) :
          /\ Get(cached_predictions).hourly_predictions[i].time
               = Get(cached_predictions).hourly_predictions[i + 1].time
          /\ Get(cached_predictions).hourly_predictions[i].height
               # Get(cached_predictions).hourly_predictions[i + 1].height

----------------------------------------------------------------------------
(* The readers against a fetch in flight. *)

\* C25: every step that leaves a fetch awaiting the provider, the sending
\* of the request included, leaves the cache as it was; a fast tick or a
\* query that runs in such a step completes in that step, leaves the fetch
\* awaiting, and returns what the cache of before the step gives at the
\* current instant.
C25_ReadersDoNotWaitForFetch ==
    [][refresh'.pc = "awaiting" =>
          /\ cached_predictions' = cached_predictions
          /\ call'.op = "_async_local_update" =>
                /\ refresh' = refresh
                /\ call'.ret = IF IsNone(cached_predictions) THEN None
                               ELSE Some(FastCurrentState(Get(cached_predictions),
                                                          now, scipy))
                /\ ~IsNone(cached_predictions) => data' = call'.ret
          /\ call'.op = "get_chart_predictions" =>
                /\ refresh' = refresh
                /\ call'.ret = get_chart_predictions(cached_predictions, options, now)
          /\ call'.op = "calculate_interval_predictions" =>
                /\ refresh' = refresh
                /\ call'.ret = calculate_interval_predictions(cached_predictions,
                                                              options, now, scipy)]_vars

\* a fast tick published from the cache of an earlier fetch while a later
\* fetch, sent half an hour or more after the cache was stored, was awaited
C25_Witness ==
    /\ call.op = "_async_local_update"
    /\ ~IsNone(call.ret)
    /\ refresh.pc = "awaiting"
    /\ ~IsNone(cached_predictions)
    /\ refresh.request_time > 0
    /\ now > refresh.request_time

\* the instants the clock takes
ClockTimes == {30 * k : k \in 0..MaxClockTicks}

\* the caches one fetch can store: the request sent at request_time, the
\* response r parsed at current_time
FetchedCaches(request_time, current_time) ==
    {Some([next_high |-> Get(p).next_high,
           next_low |-> Get(p).next_low,
           all_tides |-> Get(p).all_tides,
           hourly_predictions |-> Get(p).hourly_predictions,
           hours_after |-> HoursAfter(options)]) :
       p \in {q \in {get_all_predictions(request_time, current_time, HoursBefore(options),
                                         HoursAfter(options), r.hilo, r.hourly_ok,
                                         r.historical_ok) : r \in ProviderResponses} :
                ~IsNone(q)}}

\* C26: in every reachable state, whatever ticks and queries came before,
\* the cache is absent or is, in all its fields together (extrema, dense
\* series, next_high, next_low, hours_after), what one single fetch stores.
C26_CacheFromOneFetch ==
    ~IsNone(cached_predictions) =>
        \E request_time \in ClockTimes, current_time \in ClockTimes :
            /\ request_time <= current_time
            /\ current_time <= now
            /\ cached_predictions \in FetchedCaches(request_time, current_time)

\* a query read a cache that a fetch sent at minute 60 or later stored:
\* its extrema window holds an extremum no earlier fetch asks for
C26_Witness ==
    /\ call.op = "get_chart_predictions"
    /\ ~IsNone(call.ret)
    /\ ~IsNone(cached_predictions)
    /\ Get(cached_predictions).hourly_predictions # <<>>
    /\ Len(Get(cached_predictions).all_tides) >= 2
    /\ cached_predictions \notin FetchedCaches(0, 0) \cup FetchedCaches(0, 30)
                                 \cup FetchedCaches(30, 30)

----------------------------------------------------------------------------
(* The bracketing searches. *)

\* the timestamps of a list
TimesOf(xs) == {xs[i].time : i \in 1..Len(xs)}

\* the index of the last element with time <= target in a time-ordered
\* list whose first element is not after target
LastAtOrBefore(xs, target) ==
    CHOOSE i \in 1..Len(xs) :
        xs[i].time <= target /\ (i = Len(xs) \/ xs[i + 1].time > target)

\* C27: on a time-ordered series of 2 or 3 samples, or of 4 or more with
\* fewer than 4 distinct timestamps, with or without scipy, and a target
\* inside the series, interpolate_tide_height raises nothing and returns
\* the linear interpolation between the last sample at or before the
\* target and the sample that follows it, which is after the target; at
\* the last timestamp, where no sample follows, it returns the last
\* sample's height.
C27_LinearTierBetweenNeighbours ==
    call.op = "interpolate_tide_height" =>
        LET hp == call.args[1]
            t == call.args[2]
            n == Len(hp)
        IN (n >= 2 /\ (n <= 3 \/ Cardinality(TimesOf(hp)) < 4)
              /\ hp[1].time <= t /\ t <= hp[n].time) =>
             LET i == LastAtOrBefore(hp, t)
             IN /\ call.raised = ""
                /\ ~IsNone(call.ret)
                /\ Get(call.ret).time = t
                /\ IF i = n THEN RatEq(Get(call.ret).height, hp[n].height, 1)
                   ELSE /\ hp[i + 1].time > hp[i].time
                        /\ RatEq(Get(call.ret).height,
                                 hp[i].height * (hp[i + 1].time - hp[i].time)
                                   + (hp[i + 1].height - hp[i].height) * (t - hp[i].time),
                                 hp[i + 1].time - hp[i].time)

\* with scipy present, 4 samples of which two share a timestamp were
\* interpolated strictly between two samples of different heights
C27_Witness ==
    /\ call.op = "interpolate_tide_height"
    /\ call.args[3]
    /\ Len(call.args[1]) = 4
    /\ Cardinality(TimesOf(call.args[1])) = 3
    /\ call.args[1][1].time < call.args[2]
    /\ call.args[2] < call.args[1][4].time
    /\ ~IsNone(call.ret)
    /\ IsNumber(Get(call.ret).height)
    /\ Get(call.ret).height.den > 1

\* b, the outcome of a search of xs for target, found nothing on one side
\* or found two neighbours of xs with before.time <= target < after.time
NeighboursAround(b, xs, target) ==
    (~IsNone(b.before) /\ ~IsNone(b.after)) =>
        /\ \E i \in 1..(Len(xs) - 1) : b.before = Some(xs[i]) /\ b.after = Some(xs[i + 1])
        /\ Get(b.before).time <= target
        /\ target < Get(b.after).time
        /\ Get(b.after).time - Get(b.before).time > 0

\* C28: on every time-ordered list, duplicates of a timestamp included,
\* the search of the linear tier for the target of the call, and the
\* searches of generate_synthetic_predictions, of the fast tick and of
\* calculate_interval_predictions (which run the loop of the linear tier
\* over the extrema) for every hour of the series, find nothing on one
\* side or two neighbours with before.time <= target < after.time, so
\* that the span is positive; the synthetic series then has a point for
\* every hour.
C28_BracketIsAdjacentAndStrict ==
    /\ call.op = "interpolate_tide_height" =>
          NeighboursAround(Bracket(call.args[1], call.args[2]), call.args[1], call.args[2])
    /\ call.op = "generate_synthetic_predictions" =>
          LET all_tides == call.args[1]
              start_time == call.args[4] - 60 * call.args[3]
          IN /\ \A k \in 0..(call.args[2] + call.args[3]) :
                   /\ NeighboursAround(SynthBracketFrom(all_tides, start_time + 60 * k,
                                                        1, None),
                                       all_tides, start_time + 60 * k)
                   /\ NeighboursAround(Bracket(all_tides, start_time + 60 * k),
                                       all_tides, start_time + 60 * k)
             /\ Len(all_tides) >= 2 =>
                   Len(Get(call.ret)) = call.args[2] + call.args[3] + 1

\* the linear tier looked for a target that two samples of different
\* heights share as their timestamp, and took the later of the two as the
\* sample before the target
C28_Witness ==
    /\ call.op = "interpolate_tide_height"
    /\ ~call.args[3]
    /\ \E i \in 1..(Len(call.args[1]) - 2) :
          /\ call.args[1][i].time = call.args[2]
          /\ call.args[1][i + 1].time = call.args[2]
          /\ call.args[1][i].height # call.args[1][i + 1].height
          /\ call.args[1][i + 2].time > call.args[2]
          /\ call.args[1][i + 2].height # call.args[1][i + 1].height
          /\ Bracket(call.args[1], call.args[2]).before = Some(call.args[1][i + 1])
          /\ Bracket(call.args[1], call.args[2]).after = Some(call.args[1][i + 2])
          /\ RatEq(Get(call.ret).height, call.args[1][i + 1].height, 1)

----------------------------------------------------------------------------
(* The coordinator before its first successful slow tick. *)

\* C29: while there is no cache, a fast tick returns without publishing
\* and leaves data, the cache and last_update_time as they are,
\* get_chart_predictions returns None and calculate_interval_predictions
\* returns the empty map, and neither changes anything; until the first
\* successful slow tick nothing has been published or stamped.
C29_UninitializedNoOps ==
    [][IsNone(cached_predictions) =>
          /\ IsNone(data) /\ IsNone(last_update_time)
          /\ call'.op = "_async_local_update" =>
                /\ call'.ret = None
                /\ call'.raised = ""
                /\ UNCHANGED <<data, cached_predictions, last_update_time, refresh>>
          /\ call'.op = "get_chart_predictions" =>
                /\ call'.ret = None
                /\ UNCHANGED <<data, cached_predictions, last_update_time, refresh>>
          /\ call'.op = "calculate_interval_predictions" =>
                /\ DOMAIN call'.ret = {}
                /\ UNCHANGED <<data, cached_predictions, last_update_time, refresh>>]_vars

\* a fast tick ran with no cache, an hour after the start and with offsets
\* configured, and nothing had been published or stamped
C29_Witness ==
    /\ call.op = "_async_local_update"
    /\ IsNone(call.ret)
    /\ IsNone(cached_predictions)
    /\ IsNone(data)
    /\ IsNone(last_update_time)
    /\ options.prediction_intervals # <<>>
    /\ now >= 60

----------------------------------------------------------------------------
(* The order of the arguments of interpolate_from_high_low. *)

====
